---- MODULE Spec2Model ----
(***************************************************************************)
(* Model of the NOAA GHCN-Daily update pipeline                            *)
(* (update_noaa_and_build_site.py) and of the DOY_365 column of            *)
(* build_dataset.py.                                                       *)
(*                                                                         *)
(* Representation:                                                         *)
(*  - a calendar date is a record [year, month, day];                      *)
(*  - an optional value (None, NaN, pd.NA) is the empty tuple NA, a        *)
(*    present value v is the one-element tuple <<v>>;                      *)
(*  - decimal values are fixed-point integers counted in 1/Unit, so that   *)
(*    x / 10.0 and (a + b) / 2.0 are computed without rounding;            *)
(*  - the station id is left out: the fetched file holds one station.      *)
(***************************************************************************)
EXTENDS Integers, Sequences, FiniteSets

VARIABLES
    pc,         \* position in main(), or in the call of a single function
    url,        \* host fetch_dly_text is working on ("primary" outside it)
    i,          \* loop index of fetch_with_retries (0 outside it)
    text,       \* main's `text` (NA while None)
    raw_cache,  \* RAW_DLY_PATH
    out_daily,  \* OUT_DAILY_CSV
    out_pctl,   \* OUT_CLIM_PCTL
    out_meta,   \* OUT_META
    df_long,    \* main's df_long
    df_daily,   \* main's df_daily
    df_pctl,    \* main's df_pctl
    status,     \* how the process ended
    arg,        \* argument of a function called on its own
    ret         \* its result

vars == <<pc, url, i, text, raw_cache, out_daily, out_pctl, out_meta,
          df_long, df_daily, df_pctl, status, arg, ret>>

NA == <<>>

Some(v) == <<v>>

IsNA(x) == x = <<>>

NotNA(x) == x # <<>>

Val(x) == x[1]

\* fixed-point scale: 1.0 is Unit, so a tenth is Unit \div 10
Unit == 4 * 10

----------------------------------------------------------------------------
(* Calendar: datetime.date / pandas.Timestamp                              *)

is_leap_year(y) ==
    (y % 4 = 0) /\ ((y % 100 # 0) \/ (y % 400 = 0))

DaysInMonth(y, m) ==
    IF m = 2 THEN (IF is_leap_year(y) THEN 29 ELSE 28)
    ELSE IF m \in {4, 6, 9, 11} THEN 30 ELSE 31

\* dt.date(year, month, d) raises ValueError unless this holds
ValidDate(y, m, d) ==
    /\ y \in 1..9999
    /\ m \in 1..12
    /\ d \in 1..DaysInMonth(y, m)

MkDate(y, m, d) == [year |-> y, month |-> m, day |-> d]

RECURSIVE DaysBeforeMonth(_, _)
DaysBeforeMonth(y, m) ==
    IF m = 1 THEN 0 ELSE DaysBeforeMonth(y, m - 1) + DaysInMonth(y, m - 1)

\* Timestamp.dayofyear: 1-based, counts Feb 29 in a leap year
dayofyear(date) ==
    DaysBeforeMonth(date.year, date.month) + date.day

\* date.toordinal(): days since 0001-01-01, used for date differences
Ordinal(date) ==
    LET y == date.year - 1
    IN  365 * y + (y \div 4) - (y \div 100) + (y \div 400) + dayofyear(date)

\* (d1 - d0).days
DaysBetween(d0, d1) == Ordinal(d1) - Ordinal(d0)

DateLE(d0, d1) == Ordinal(d0) <= Ordinal(d1)

NextDay(date) ==
    IF date.day < DaysInMonth(date.year, date.month)
    THEN MkDate(date.year, date.month, date.day + 1)
    ELSE IF date.month < 12
    THEN MkDate(date.year, date.month + 1, 1)
    ELSE MkDate(date.year + 1, 1, 1)

RECURSIVE AddDays(_, _)
AddDays(date, n) ==
    IF n = 0 THEN date ELSE AddDays(NextDay(date), n - 1)

START_DATE == MkDate(1995, 1, 1)

----------------------------------------------------------------------------
(* Day-of-year normalisation                                               *)

\* a variant that shifts from February on instead of from March on
to_doy365_feb(date) ==
    LET doy == dayofyear(date)
    IN  IF date.month = 2 /\ date.day = 29 THEN Some(59)
        ELSE IF is_leap_year(date.year) /\ date.month >= 2 THEN Some(doy - 1)
        ELSE Some(doy)

\* to_doy365 of the update script; it always returns an int
to_doy365(date) ==
    LET doy == dayofyear(date)
    IN  IF date.month = 2 /\ date.day = 29 THEN Some(59)
        ELSE IF is_leap_year(date.year) /\ date.month > 2 THEN Some(doy - 1)
        ELSE Some(doy)

\* the DOY_365 column of build_dataset.main for one row; NaN is NA
DOY_365(date) ==
    LET DOY_366  == dayofyear(date)
        is_leap  == is_leap_year(date.year)
        is_feb29 == date.month = 2 /\ date.day = 29
        shifted  == IF is_leap /\ DOY_366 > 59 THEN DOY_366 - 1 ELSE DOY_366
    IN  IF is_feb29 THEN NA ELSE Some(shifted)

----------------------------------------------------------------------------
(* The .dly text                                                           *)
(*                                                                         *)
(* A line is [hdr, element, slots]: hdr is Some([year, month]) when        *)
(* line[11:15] and line[15:17] are integers and NA when int() raises on    *)
(* them (an empty or truncated line); slots holds the complete 8-character *)
(* day groups the line has, each [val, qflag] with val = NA when           *)
(* int(line[base:base+5]) raises.                                          *)

VARS == <<"TMIN", "TMAX", "PRCP", "SNOW", "SNWD">>

VarSet == {VARS[k] : k \in 1..Len(VARS)}

\* range(1, 32): day slots of a line
NSlots == 31

\* the sentinel of a missing observation
MISSING == -9999

\* the value one day slot yields: None for the sentinel and for a flagged value
SlotRaw(slot) ==
    IF Val(slot.val) = MISSING \/ slot.qflag # " " THEN NA ELSE slot.val

\* `for d in range(1, 32)` reads int(line[base:base + 5]) of every one of the
\* 31 slots before it tests the calendar day: it raises ValueError when a
\* slot is not there or is no integer, whatever the month
SlotsRaise(line) ==
    \E d \in 1..NSlots : d > Len(line.slots) \/ IsNA(line.slots[d].val)

\* the rows one line appends: one per day d for which dt.date(year, month, d)
\* exists, in the order of d
SlotRows(line) ==
    LET year  == Val(line.hdr).year
        month == Val(line.hdr).month
        ndays == IF ValidDate(year, month, 1) THEN DaysInMonth(year, month) ELSE 0
    IN  [d \in 1..ndays |->
            [date |-> MkDate(year, month, d), element |-> line.element,
             raw |-> SlotRaw(line.slots[d])]]

\* int(line[11:15]) or int(line[15:17]) raises, or a slot of a line of a
\* known element does
LineRaises(line) ==
    IsNA(line.hdr) \/ (line.element \in VarSet /\ SlotsRaise(line))

RECURSIVE ParseLines(_, _, _)
\* the loop over text.splitlines() from line k on
ParseLines(lines, k, rows) ==
    IF k > Len(lines) THEN [raised |-> FALSE, rows |-> rows]
    ELSE IF LineRaises(lines[k]) THEN [raised |-> TRUE, rows |-> rows]
    ELSE IF lines[k].element \notin VarSet THEN ParseLines(lines, k + 1, rows)
    ELSE ParseLines(lines, k + 1, rows \o SlotRows(lines[k]))

\* parse_dly_to_df: raised is an uncaught ValueError, rows the long table
parse_dly_to_df(lines) == ParseLines(lines, 1, <<>>)

----------------------------------------------------------------------------
(* wide_and_convert                                                        *)

RECURSIVE SortDates(_)
\* the dates of a set in ascending order
SortDates(S) ==
    IF S = {} THEN <<>>
    ELSE LET m == CHOOSE d \in S : \A e \in S : DateLE(d, e)
         IN  <<m>> \o SortDates(S \ {m})

\* aggfunc="first": the first non-null raw of (date, element)
FirstRaw(rows, date, element) ==
    LET hits == {k \in 1..Len(rows) :
                    rows[k].date = date /\ rows[k].element = element /\ NotNA(rows[k].raw)}
    IN  IF hits = {} THEN NA
        ELSE rows[CHOOSE k \in hits : \A j \in hits : k <= j].raw

\* pivot_table drops the (date, element) groups whose aggregate is null
\* (dropna=True): a date, and an element column, exists in the wide table
\* only if it holds a non-null value
PivotDates(rows) == {rows[k].date : k \in {j \in 1..Len(rows) : NotNA(rows[j].raw)}}

PivotColumns(rows) == {rows[k].element : k \in {j \in 1..Len(rows) : NotNA(rows[j].raw)}}

\* c10: tenths to units
c10(x) == IF NotNA(x) THEN Some(Val(x) * (Unit \div 10)) ELSE NA

\* SNWD is taken as it is
AsIs(x) == IF NotNA(x) THEN Some(Val(x) * Unit) ELSE NA

\* (Tmin_C + Tmax_C) / 2.0, null when either is
Mean2(a, b) == IF NotNA(a) /\ NotNA(b) THEN Some((Val(a) + Val(b)) \div 2) ELSE NA

WideRow(rows, date) ==
    LET tmin == c10(FirstRaw(rows, date, "TMIN"))
        tmax == c10(FirstRaw(rows, date, "TMAX"))
    IN  [date    |-> date,
         Tmin_C  |-> tmin,
         Tmax_C  |-> tmax,
         PRCP_mm |-> c10(FirstRaw(rows, date, "PRCP")),
         SNOW_mm |-> c10(FirstRaw(rows, date, "SNOW")),
         SNWD_mm |-> AsIs(FirstRaw(rows, date, "SNWD")),
         Tavg_C  |-> Mean2(tmin, tmax),
         Year    |-> date.year,
         month   |-> date.month,
         day     |-> date.day,
         DOY_365 |-> to_doy365(date)]

\* out = out[out["date"] >= start_ts]
FromStart(dates) == {d \in dates : DateLE(START_DATE, d)}

\* wide.get(c) is None for a column the pivot has not, and None.map raises
\* AttributeError; SNWD is not mapped, a missing SNWD gives a null column.
\* A long table without any non-null value leaves the pivot without columns:
\* the call ends in an exception as well, recorded under the same name.
wide_and_convert(rows) ==
    IF {"TMIN", "TMAX", "PRCP", "SNOW"} \subseteq PivotColumns(rows)
    THEN LET dates == SortDates(FromStart(PivotDates(rows)))
         IN  [raised |-> FALSE,
              out |-> [k \in 1..Len(dates) |-> WideRow(rows, dates[k])]]
    ELSE [raised |-> TRUE, out |-> <<>>]

----------------------------------------------------------------------------
(* impute_one_day_gaps                                                     *)

RECURSIVE InsertByDate(_, _)
InsertByDate(sorted, row) ==
    IF sorted = <<>> THEN <<row>>
    ELSE IF DateLE(sorted[Len(sorted)].date, row.date) THEN Append(sorted, row)
    ELSE Append(InsertByDate(SubSeq(sorted, 1, Len(sorted) - 1), row), sorted[Len(sorted)])

RECURSIVE SortRows(_, _)
\* df.sort_values("date").reset_index(drop=True), from row k on
SortRows(df, k) ==
    IF k = 0 THEN <<>> ELSE InsertByDate(SortRows(df, k - 1), df[k])

sort_values(df) == SortRows(df, Len(df))

\* a variant without the test on the dates of the neighbouring rows
Adjacent_any(d0, d1, d2) == TRUE

\* (d1 - d0).days == 1 and (d2 - d1).days == 1
Adjacent(d0, d1, d2) ==
    DaysBetween(d0, d1) = 1 /\ DaysBetween(d1, d2) = 1

RECURSIVE FillFrom(_, _, _)
\* `for i in range(1, len(df) - 1)` from index i on (rows are numbered from
\* 1 here); s is updated in place, so a later index reads what an earlier
\* one wrote
FillFrom(df, s, k) ==
    IF k > Len(df) - 1 THEN s
    ELSE IF /\ IsNA(s[k]) /\ NotNA(s[k - 1]) /\ NotNA(s[k + 1])
            /\ Adjacent(df[k - 1].date, df[k].date, df[k + 1].date)
    THEN FillFrom(df, [s EXCEPT ![k] = Mean2(s[k - 1], s[k + 1])], k + 1)
    ELSE FillFrom(df, s, k + 1)

\* a variant that also fills a missing first value from the second row
ImputeColumn_edge(df, col) ==
    LET s == FillFrom(df, [k \in 1..Len(df) |-> df[k][col]], 2)
    IN  IF Len(df) >= 2 /\ IsNA(s[1]) THEN [s EXCEPT ![1] = s[2]] ELSE s

\* one round of `for col in cols`: the new column
ImputeColumn(df, col) ==
    FillFrom(df, [k \in 1..Len(df) |-> df[k][col]], 2)

SetColumn(df, col, s) ==
    [k \in 1..Len(df) |-> [df[k] EXCEPT ![col] = s[k]]]

RECURSIVE ImputeCols(_, _, _)
ImputeCols(df, cols, c) ==
    IF c > Len(cols) THEN df
    ELSE ImputeCols(SetColumn(df, cols[c], ImputeColumn(df, cols[c])), cols, c + 1)

impute_one_day_gaps(df0, cols) ==
    LET df == ImputeCols(sort_values(df0), cols, 1)
    IN  [k \in 1..Len(df) |->
            [df[k] EXCEPT !["Tavg_C"] = Mean2(df[k]["Tmin_C"], df[k]["Tmax_C"])]]

\* the columns main passes
MainCols == <<"Tmin_C", "Tmax_C", "PRCP_mm", "SNOW_mm", "SNWD_mm">>

----------------------------------------------------------------------------
(* build_percentiles                                                       *)

metrics == <<"Tmin_C", "Tmax_C", "Tavg_C", "PRCP_mm", "SNOW_mm", "SNWD_mm">>

RECURSIVE InsertInt(_, _)
InsertInt(sorted, v) ==
    IF sorted = <<>> THEN <<v>>
    ELSE IF sorted[Len(sorted)] <= v THEN Append(sorted, v)
    ELSE Append(InsertInt(SubSeq(sorted, 1, Len(sorted) - 1), v), sorted[Len(sorted)])

RECURSIVE GroupVals(_, _, _, _)
\* g[m].dropna() of the group doy, in ascending order, from row k down
GroupVals(df, k, doy, m) ==
    IF k = 0 THEN <<>>
    ELSE IF to_doy365(df[k].date) = Some(doy) /\ NotNA(df[k][m])
    THEN InsertInt(GroupVals(df, k - 1, doy, m), Val(df[k][m]))
    ELSE GroupVals(df, k - 1, doy, m)

\* ten times vals.quantile(q / 10) by linear interpolation between the order
\* statistics around position q * (n - 1) / 10
quantile10(vals, q) ==
    LET n    == Len(vals)
        pos  == q * (n - 1)
        lo   == (pos \div 10) + 1
        hi   == IF lo < n THEN lo + 1 ELSE n
    IN  10 * vals[lo] + (vals[hi] - vals[lo]) * (pos % 10)

PctlCell(vals) ==
    IF Len(vals) = 0 THEN NA
    ELSE Some([p10 |-> quantile10(vals, 1), p50 |-> quantile10(vals, 5),
               p90 |-> quantile10(vals, 9)])

RECURSIVE SortNat(_)
SortNat(S) ==
    IF S = {} THEN <<>>
    ELSE LET m == CHOOSE d \in S : \A e \in S : d <= e
         IN  <<m>> \o SortNat(S \ {m})

\* with no row at all, pd.DataFrame([]) has no DOY_365 column and
\* sort_values("DOY_365") raises KeyError
build_percentiles(df) ==
    LET doys == SortNat({Val(to_doy365(df[k].date)) : k \in 1..Len(df)})
    IN  IF Len(df) = 0 THEN [raised |-> TRUE, out |-> <<>>]
        ELSE [raised |-> FALSE,
              out |-> [g \in 1..Len(doys) |->
                         [DOY_365 |-> doys[g],
                          pctl |-> [m \in 1..Len(metrics) |->
                                      PctlCell(GroupVals(df, Len(df), doys[g], metrics[m]))]]]]

----------------------------------------------------------------------------
(* The station files the model feeds to a run                              *)

\* days of January 1995 whose observations vary
WindowLen == 3

\* raw value (tenths) of an element on day d: not linear in d
RawAt(element, d) ==
    LET base == CASE element = "TMIN" -> -60
                  [] element = "TMAX" -> 40
                  [] element = "PRCP" -> 0
                  [] element = "SNOW" -> 5
                  [] OTHER -> 20
    IN  base + 10 * d * d

MissingSlot == [val |-> Some(MISSING), qflag |-> " "]

ValueSlot(element, d, qflag) == [val |-> Some(RawAt(element, d)), qflag |-> qflag]

\* a full line of January 1995: day d <= WindowLen observed where pat[d]
JanLine(element, pat, qflag) ==
    [hdr |-> Some([year |-> 1995, month |-> 1]), element |-> element,
     slots |-> [d \in 1..NSlots |->
                  IF d <= WindowLen /\ pat[d] THEN ValueSlot(element, d, qflag)
                  ELSE MissingSlot]]

\* a full line of November 1994, before START_DATE, observed on the 30th;
\* its 31st slot is no calendar day
PreLine(element) ==
    [hdr |-> Some([year |-> 1994, month |-> 11]), element |-> element,
     slots |-> [d \in 1..NSlots |->
                  IF d = 30 THEN ValueSlot(element, d, " ") ELSE MissingSlot]]

FebLine(nslots, bad) ==
    [hdr |-> Some([year |-> 1995, month |-> 2]), element |-> "TMIN",
     slots |-> [d \in 1..nslots |->
                  IF d \in bad THEN [val |-> NA, qflag |-> " "] ELSE MissingSlot]]

AllObserved == [d \in 1..WindowLen |-> TRUE]

\* one more line at the end of the file
ExtraLines ==
    [none    |-> <<>>,
     empty   |-> <<[hdr |-> NA, element |-> "", slots |-> <<>>]>>,
     short   |-> <<FebLine(28, {})>>,
     badval  |-> <<FebLine(NSlots, {2})>>,
     unknown |-> <<JanLine("TAVG", AllObserved, " ")>>,
     flagged |-> <<JanLine("TMIN", AllObserved, "X")>>]

ExtraKinds == {"none", "empty", "short", "badval", "unknown", "flagged"}

Patterns == [1..WindowLen -> BOOLEAN]

\* per group of elements: no January line (NA) or a line with a pattern
Choices == {NA} \cup {Some(p) : p \in Patterns}

\* TMIN and TMAX share a choice, PRCP and SNOW another, SNWD has its own
GroupOf(element) ==
    IF element \in {"TMIN", "TMAX"} THEN 1
    ELSE IF element \in {"PRCP", "SNOW"} THEN 2 ELSE 3

RECURSIVE JanLines(_, _)
JanLines(g, k) ==
    IF k > Len(VARS) THEN <<>>
    ELSE LET c == g[GroupOf(VARS[k])]
         IN  (IF IsNA(c) THEN <<>> ELSE <<JanLine(VARS[k], Val(c), " ")>>)
             \o JanLines(g, k + 1)

TextOf(pre, g, extra) ==
    (IF pre THEN [k \in 1..Len(VARS) |-> PreLine(VARS[k])] ELSE <<>>)
    \o JanLines(g, 1) \o ExtraLines[extra]

\* the SNWD line is not there or is observed on every day of the window
Grids ==
    {g \in [1..3 -> Choices] : g[3] \in {NA, Some(AllObserved)}}

Texts ==
    {TextOf(pre, g, extra) : pre \in BOOLEAN, g \in Grids, extra \in ExtraKinds}

----------------------------------------------------------------------------
(* main                                                                    *)

\* fetch_with_retries(url, retries=6)
retries == 6

File(state, data) == [state |-> state, data |-> data]

Untouched(f) == f.state \in {"absent", "prior"}

Init ==
    /\ pc = "fetch"
    /\ url = "primary"
    /\ i = 0
    /\ text = NA
    /\ raw_cache \in {File("absent", <<>>), File("prior", <<>>)}
    /\ \E s \in {"absent", "prior"} :
         /\ out_daily = File(s, <<>>)
         /\ out_pctl = File(s, <<>>)
         /\ out_meta = File(s, <<>>)
    /\ df_long = <<>>
    /\ df_daily = <<>>
    /\ df_pctl = <<>>
    /\ status = "running"
    /\ arg = <<>>
    /\ ret = <<>>

\* requests.get answers 200, or a status raise_for_status lets pass:
\* fetch_with_retries returns r and fetch_dly_text returns r.text
GetReturns ==
    /\ pc = "fetch" /\ i < retries
    /\ \E t \in Texts : text' = Some(t)
    /\ pc' = "write_raw"
    /\ url' = "primary" /\ i' = 0
    /\ UNCHANGED <<raw_cache, out_daily, out_pctl, out_meta,
                   df_long, df_daily, df_pctl, status, arg, ret>>

\* a status in (429, 500, 502, 503, 504), or an exception (requests.get's
\* or raise_for_status's): sleep and go round the loop
GetFails ==
    /\ pc = "fetch" /\ i < retries
    /\ i' = i + 1
    /\ UNCHANGED <<pc, url, text, raw_cache, out_daily, out_pctl, out_meta,
                   df_long, df_daily, df_pctl, status, arg, ret>>

\* fetch_with_retries(PRIMARY_URL) returned None
TryFallback ==
    /\ pc = "fetch" /\ i = retries /\ url = "primary"
    /\ url' = "fallback"
    /\ i' = 0
    /\ UNCHANGED <<pc, text, raw_cache, out_daily, out_pctl, out_meta,
                   df_long, df_daily, df_pctl, status, arg, ret>>

\* fetch_with_retries(FALLBACK_URL) returned None: fetch_dly_text does too
FetchNone ==
    /\ pc = "fetch" /\ i = retries /\ url = "fallback"
    /\ pc' = "cache"
    /\ UNCHANGED <<url, i, text, raw_cache, out_daily, out_pctl, out_meta,
                   df_long, df_daily, df_pctl, status, arg, ret>>

\* text is None and RAW_DLY_PATH exists: read what an earlier run cached
UseCache ==
    /\ pc = "cache" /\ raw_cache.state # "absent"
    /\ \E t \in Texts : text' = Some(t)
    /\ pc' = "write_raw"
    /\ url' = "primary" /\ i' = 0
    /\ UNCHANGED <<raw_cache, out_daily, out_pctl, out_meta,
                   df_long, df_daily, df_pctl, status, arg, ret>>

\* a variant that goes on with an empty text instead of returning
NoOp_goes_on ==
    /\ pc = "cache" /\ raw_cache.state = "absent"
    /\ text' = Some(<<>>)
    /\ pc' = "write_raw"
    /\ url' = "primary" /\ i' = 0
    /\ UNCHANGED <<raw_cache, out_daily, out_pctl, out_meta,
                   df_long, df_daily, df_pctl, status, arg, ret>>

\* text is None and there is no cached file: return 0
NoOp ==
    /\ pc = "cache" /\ raw_cache.state = "absent"
    /\ status' = "return_0"
    /\ pc' = "done"
    /\ UNCHANGED <<url, i, text, raw_cache, out_daily, out_pctl, out_meta,
                   df_long, df_daily, df_pctl, arg, ret>>

\* RAW_DLY_PATH.write_text(text)
WriteRaw ==
    /\ pc = "write_raw"
    /\ raw_cache' = File("written", Val(text))
    /\ pc' = "parse"
    /\ UNCHANGED <<url, i, text, out_daily, out_pctl, out_meta,
                   df_long, df_daily, df_pctl, status, arg, ret>>

\* df_long = parse_dly_to_df(text); a ValueError is not caught
Parse ==
    /\ pc = "parse"
    /\ LET r == parse_dly_to_df(Val(text))
       IN  IF r.raised
           THEN /\ status' = "ValueError" /\ pc' = "done" /\ df_long' = df_long
           ELSE /\ df_long' = r.rows /\ pc' = "wide" /\ status' = status
    /\ UNCHANGED <<url, i, text, raw_cache, out_daily, out_pctl, out_meta,
                   df_daily, df_pctl, arg, ret>>

\* df_daily = wide_and_convert(df_long)
Convert ==
    /\ pc = "wide"
    /\ LET r == wide_and_convert(df_long)
       IN  IF r.raised
           THEN /\ status' = "AttributeError" /\ pc' = "done" /\ df_daily' = df_daily
           ELSE /\ df_daily' = r.out /\ pc' = "impute" /\ status' = status
    /\ UNCHANGED <<url, i, text, raw_cache, out_daily, out_pctl, out_meta,
                   df_long, df_pctl, arg, ret>>

\* df_daily = impute_one_day_gaps(df_daily, [...])
Impute ==
    /\ pc = "impute"
    /\ df_daily' = impute_one_day_gaps(df_daily, MainCols)
    /\ pc' = "pctl"
    /\ UNCHANGED <<url, i, text, raw_cache, out_daily, out_pctl, out_meta,
                   df_long, df_pctl, status, arg, ret>>

\* df_pctl = build_percentiles(df_daily)
Percentiles ==
    /\ pc = "pctl"
    /\ LET r == build_percentiles(df_daily)
       IN  IF r.raised
           THEN /\ status' = "KeyError" /\ pc' = "done" /\ df_pctl' = df_pctl
           ELSE /\ df_pctl' = r.out /\ pc' = "write_daily" /\ status' = status
    /\ UNCHANGED <<url, i, text, raw_cache, out_daily, out_pctl, out_meta,
                   df_long, df_daily, arg, ret>>

\* df_daily.to_csv(OUT_DAILY_CSV)
WriteDaily ==
    /\ pc = "write_daily"
    /\ out_daily' = File("written", df_daily)
    /\ pc' = "write_pctl"
    /\ UNCHANGED <<url, i, text, raw_cache, out_pctl, out_meta,
                   df_long, df_daily, df_pctl, status, arg, ret>>

\* df_pctl.to_csv(OUT_CLIM_PCTL)
WritePctl ==
    /\ pc = "write_pctl"
    /\ out_pctl' = File("written", df_pctl)
    /\ pc' = "write_meta"
    /\ UNCHANGED <<url, i, text, raw_cache, out_daily, out_meta,
                   df_long, df_daily, df_pctl, status, arg, ret>>

\* df_daily["date"].max().date() if len(df_daily) else None
last_date(df) == IF Len(df) = 0 THEN NA ELSE Some(df[Len(df)].date)

\* OUT_META.write_text(...), and main returns 0
WriteMeta ==
    /\ pc = "write_meta"
    /\ out_meta' = File("written", <<[start_date |-> START_DATE,
                                      last_date |-> last_date(df_daily)]>>)
    /\ status' = "return_0"
    /\ pc' = "done"
    /\ UNCHANGED <<url, i, text, raw_cache, out_daily, out_pctl,
                   df_long, df_daily, df_pctl, arg, ret>>

\* a write raises OSError (disk full, no permission): the file is left as it
\* was when open() fails, truncated or half written otherwise; the exception
\* is not caught
WriteFails ==
    /\ pc \in {"write_raw", "write_daily", "write_pctl", "write_meta"}
    /\ \E left \in {"asis", "partial"} :
         LET after(f) == IF left = "asis" THEN f ELSE File("partial", <<>>)
         IN  /\ raw_cache' = IF pc = "write_raw" THEN after(raw_cache) ELSE raw_cache
             /\ out_daily' = IF pc = "write_daily" THEN after(out_daily) ELSE out_daily
             /\ out_pctl' = IF pc = "write_pctl" THEN after(out_pctl) ELSE out_pctl
             /\ out_meta' = IF pc = "write_meta" THEN after(out_meta) ELSE out_meta
    /\ status' = "OSError"
    /\ pc' = "done"
    /\ UNCHANGED <<url, i, text, df_long, df_daily, df_pctl, arg, ret>>

Next ==
    \/ GetReturns \/ GetFails \/ TryFallback \/ FetchNone
    \/ UseCache \/ NoOp
    \/ WriteRaw \/ Parse \/ Convert \/ Impute \/ Percentiles
    \/ WriteDaily \/ WritePctl \/ WriteMeta \/ WriteFails

Spec == Init /\ [][Next]_vars

----------------------------------------------------------------------------
(* The day-of-year functions called on their own                           *)

DoyYears == {1900, 1995, 1996, 2000}

DoyDates ==
    {MkDate(y, m, d) : y \in DoyYears, m \in 1..12, d \in 1..31} \cap
    {x \in [year : DoyYears, month : 1..12, day : 1..31] :
        ValidDate(x.year, x.month, x.day)}

Rest ==
    /\ url = "primary"
    /\ i = 0
    /\ text = NA
    /\ raw_cache = File("absent", <<>>)
    /\ out_daily = File("absent", <<>>)
    /\ out_pctl = File("absent", <<>>)
    /\ out_meta = File("absent", <<>>)
    /\ df_long = <<>>
    /\ df_daily = <<>>
    /\ df_pctl = <<>>
    /\ status = "running"

InitDoy ==
    /\ pc = "call_doy"
    /\ arg \in DoyDates
    /\ ret = <<>>
    /\ Rest

\* to_doy365(arg) and the DOY_365 of a row of build_dataset.main dated arg
CallDoy ==
    /\ pc = "call_doy"
    /\ ret' = [to_doy365 |-> to_doy365(arg), DOY_365 |-> DOY_365(arg)]
    /\ pc' = "return_doy"
    /\ UNCHANGED <<url, i, text, raw_cache, out_daily, out_pctl, out_meta,
                   df_long, df_daily, df_pctl, status, arg>>

SpecDoy == InitDoy /\ [][CallDoy]_vars

----------------------------------------------------------------------------
(* impute_one_day_gaps called on its own                                   *)

\* rows of the series handed to impute_one_day_gaps
MaxLen == 4

\* the first of MaxLen consecutive days: 1996-02-27, so that the days run
\* over Feb 29 and the end of a month
ImputeStart == MkDate(1996, 2, 27)

ImputeRow(k, cell) ==
    LET tmin == IF cell \in {2, 4} THEN c10(Some(RawAt("TMIN", k))) ELSE NA
        tmax == IF cell \in {3, 4} THEN c10(Some(RawAt("TMAX", k))) ELSE NA
    IN  [date |-> AddDays(ImputeStart, k - 1), Tmin_C |-> tmin, Tmax_C |-> tmax,
         Tavg_C |-> Mean2(tmin, tmax)]

RECURSIVE RowsOf(_, _)
\* day k has no row when f[k] = 0, a row with neither, one or both values else
RowsOf(f, k) ==
    IF k = 0 THEN <<>>
    ELSE RowsOf(f, k - 1) \o (IF f[k] = 0 THEN <<>> ELSE <<ImputeRow(k, f[k])>>)

Reverse(s) == [k \in 1..Len(s) |-> s[Len(s) + 1 - k]]

ImputeFrames ==
    {RowsOf(f, MaxLen) : f \in [1..MaxLen -> 0..4]}
    \cup {Reverse(RowsOf(f, MaxLen)) : f \in [1..MaxLen -> 0..4]}

ImputeColsChoices == {<<>>, <<"Tmin_C">>, <<"Tmin_C", "Tmax_C">>}

InitImpute ==
    /\ pc = "call_impute"
    /\ arg \in [df : ImputeFrames, cols : ImputeColsChoices]
    /\ ret = <<>>
    /\ Rest

CallImpute ==
    /\ pc = "call_impute"
    /\ ret' = impute_one_day_gaps(arg.df, arg.cols)
    /\ pc' = "return_impute"
    /\ UNCHANGED <<url, i, text, raw_cache, out_daily, out_pctl, out_meta,
                   df_long, df_daily, df_pctl, status, arg>>

SpecImpute == InitImpute /\ [][CallImpute]_vars

----------------------------------------------------------------------------
(* Properties                                                              *)

IsFeb29(date) == date.month = 2 /\ date.day = 29

InRangeOrNone(r, date) ==
    /\ IsNA(r) \/ Val(r) \in 1..365
    /\ IsNA(r) <=> IsFeb29(date)

\* C1: for every date, both day-of-year normalisers (to_doy365 and the
\* DOY_365 column of build_dataset) give an integer in 1..365 or none, and
\* none exactly on February 29.
C1_DoyInRangeOrNone ==
    pc = "return_doy" =>
        /\ InRangeOrNone(ret.to_doy365, arg)
        /\ InRangeOrNone(ret.DOY_365, arg)

\* days before each month in a year without Feb 29
CumNonLeap == <<0, 31, 59, 90, 120, 151, 181, 212, 243, 273, 304, 334>>

NonLeapOrdinal(date) == CumNonLeap[date.month] + date.day

\* C2: for every date other than February 29, both normalisers give the
\* ordinal the same month and day has in a non-leap year: the plain
\* day-of-year in a non-leap year, and in a leap year the 366-based
\* day-of-year minus 1 after February 28 (Feb 28 is 59, Mar 1 is 60, Dec 31
\* is 365).
C2_DoyIsNonLeapOrdinal ==
    (pc = "return_doy" /\ ~IsFeb29(arg)) =>
        /\ ret.to_doy365 = Some(NonLeapOrdinal(arg))
        /\ ret.DOY_365 = Some(NonLeapOrdinal(arg))
        /\ ~is_leap_year(arg.year) => ret.to_doy365 = Some(dayofyear(arg))
        /\ (is_leap_year(arg.year) /\ arg.month > 2) =>
              /\ ret.to_doy365 = Some(dayofyear(arg) - 1)
              /\ ret.DOY_365 = Some(dayofyear(arg) - 1)
        /\ (arg.month = 12 /\ arg.day = 31) => ret.to_doy365 = Some(365)

\* March 1 of a leap year has been normalised to 60
C2_Witness ==
    /\ pc = "return_doy"
    /\ arg = MkDate(1996, 3, 1)
    /\ ret.to_doy365 = Some(60)
    /\ ret.DOY_365 = Some(60)

\* the value of column col on the calendar day `off` days from row k, if any
HasValOn(df, k, off, col) ==
    \E j \in 1..Len(df) :
        DaysBetween(df[k].date, df[j].date) = off /\ NotNA(df[j][col])

ValOn(df, k, off, col) ==
    LET j == CHOOSE j \in 1..Len(df) :
                DaysBetween(df[k].date, df[j].date) = off /\ NotNA(df[j][col])
    IN  Val(df[j][col])

\* C3: after one call of impute_one_day_gaps, for every interpolated
\* column, a missing value whose previous and next calendar days both had a
\* value is exactly their arithmetic mean, and a missing value with a
\* missing day before or after it (a run of two or more missing days) stays
\* missing.
C3_FillsOnlyIsolatedGaps ==
    pc = "return_impute" =>
        LET in == sort_values(arg.df)
        IN  /\ Len(ret) = Len(in)
            /\ \A c \in 1..Len(arg.cols) : \A k \in 1..Len(in) :
                 LET col == arg.cols[c]
                 IN  /\ ret[k].date = in[k].date
                     /\ NotNA(in[k][col]) => ret[k][col] = in[k][col]
                     /\ (IsNA(in[k][col]) /\ HasValOn(in, k, -1, col)
                                          /\ HasValOn(in, k, 1, col)) =>
                           /\ NotNA(ret[k][col])
                           /\ 2 * Val(ret[k][col]) =
                                 ValOn(in, k, -1, col) + ValOn(in, k, 1, col)
                     /\ (IsNA(in[k][col]) /\ ~(HasValOn(in, k, -1, col)
                                               /\ HasValOn(in, k, 1, col))) =>
                           IsNA(ret[k][col])

\* one column had an isolated gap filled while another kept a two-day gap
\* that has values on both sides
C3_Witness ==
    /\ pc = "return_impute"
    /\ arg.cols = <<"Tmin_C", "Tmax_C">>
    /\ Len(ret) = 4
    /\ LET in == sort_values(arg.df)
       IN  /\ IsNA(in[2].Tmin_C) /\ NotNA(ret[2].Tmin_C)
           /\ NotNA(in[1].Tmax_C) /\ IsNA(in[2].Tmax_C)
           /\ IsNA(in[3].Tmax_C) /\ NotNA(in[4].Tmax_C)
           /\ IsNA(ret[2].Tmax_C) /\ IsNA(ret[3].Tmax_C)

\* C4: impute_one_day_gaps leaves Tmin_C and Tmax_C of the first and of the
\* last date of the date-sorted series as they were, missing or not, for
\* every length of the series (0, 1 and 2 included).
C4_EndsUnchanged ==
    pc = "return_impute" =>
        LET in == sort_values(arg.df)
            n  == Len(in)
        IN  /\ Len(ret) = n
            /\ n >= 1 =>
                 \A k \in {1, n} : \A col \in {"Tmin_C", "Tmax_C"} :
                    /\ ret[k].date = in[k].date
                    /\ ret[k][col] = in[k][col]

\* a series whose first and last Tmin_C are missing beside present
\* neighbours, and in which an inner value was filled
C4_Witness ==
    /\ pc = "return_impute"
    /\ arg.cols = <<"Tmin_C", "Tmax_C">>
    /\ Len(ret) = 4
    /\ IsNA(ret[1].Tmin_C) /\ NotNA(ret[2].Tmin_C)
    /\ NotNA(ret[3].Tmin_C) /\ IsNA(ret[4].Tmin_C)
    /\ LET in == sort_values(arg.df)
       IN  IsNA(in[2].Tmax_C) /\ NotNA(ret[2].Tmax_C)

OutputsUntouched ==
    Untouched(out_daily) /\ Untouched(out_pctl) /\ Untouched(out_meta)

\* C5: when every attempt on both hosts failed and there is no cached .dly,
\* main returns 0 and the step writes none of the raw cache, the daily CSV,
\* the percentile CSV and meta.json; none of them was written before either.
C5_NoOpWritesNothing ==
    [][(pc = "cache" /\ raw_cache.state = "absent") =>
          /\ OutputsUntouched
          /\ pc' = "done"
          /\ status' = "return_0"
          /\ UNCHANGED <<raw_cache, out_daily, out_pctl, out_meta>>]_vars

\* the run ended as a no-op beside the outputs of an earlier run
C5_Witness ==
    /\ pc = "done"
    /\ IsNA(text)
    /\ status = "return_0"
    /\ raw_cache.state = "absent"
    /\ out_daily.state = "prior"

\* C6: no parse anomaly (an invalid calendar day, an unknown element, a
\* malformed value field, a line shorter than 31 day slots, an empty line)
\* aborts the run: parse_dly_to_df never raises.
C6_ParseNeverAborts ==
    pc = "done" => status # "ValueError"

\* no valid observation at or after START_DATE in the parsed text
NoValidObs(lines) ==
    LET rows == parse_dly_to_df(lines).rows
    IN  \A k \in 1..Len(rows) :
           NotNA(rows[k].raw) => ~DateLE(START_DATE, rows[k].date)

\* C7: a run whose input parses and holds no valid observation at or after
\* START_DATE ends with an explicit "no data" error.
C7_NoDataIsExplicitError ==
    (/\ pc = "done"
     /\ NotNA(text)
     /\ status # "OSError"
     /\ ~parse_dly_to_df(Val(text)).raised
     /\ NoValidObs(Val(text))) => status = "NoDataError"

\* C8: at the end of a run, the daily CSV, the percentile CSV and meta.json
\* were all three written by the run, or none of them was touched.
C8_OutputsAllOrNone ==
    pc = "done" =>
        \/ OutputsUntouched
        \/ /\ out_daily.state = "written"
           /\ out_pctl.state = "written"
           /\ out_meta.state = "written"

\* C9: the series handed to the interpolator holds one row for every
\* calendar date from START_DATE to the last observed date, none missing.
C9_SeriesCoversRange ==
    pc = "impute" =>
        \A k \in 1..Len(df_daily) : df_daily[k].date = AddDays(START_DATE, k - 1)

\* C10: the interpolation step of a run leaves the precipitation, snowfall
\* and snow-depth value of every date as wide_and_convert gave it.
C10_ImputeLeavesPrecipitation ==
    pc = "pctl" =>
        LET before == wide_and_convert(df_long).out
        IN  \A k \in 1..Len(df_daily) :
               /\ df_daily[k].PRCP_mm = before[k].PRCP_mm
               /\ df_daily[k].SNOW_mm = before[k].SNOW_mm
               /\ df_daily[k].SNWD_mm = before[k].SNWD_mm

====
